---- MODULE Spec2Model ----
(***************************************************************************)
(* AMDGPUCodeGenPassBuilder: the decision logic that assembles the AMDGPU  *)
(* code-generation pipeline for the new pass manager.  The state is the    *)
(* configuration the builder reads (optimization level, cl::opt flags,     *)
(* target-machine toggles), the set of disabled passes and the ordered     *)
(* list of passes handed to addPass.  Each phase-build method is one       *)
(* action.                                                                 *)
(***************************************************************************)
EXTENDS Integers, Sequences, FiniteSets

VARIABLES
  OptLevel,                       \* TM.getOptLevel()
  cl,                             \* the cl::opt<bool> flags given to isPassEnabled
  LowerCtorDtor,                  \* flags read directly as booleans
  EnableLowerModuleLDS,
  EnableLowerKernelArguments,
  AMDGPUAtomicOptimizerStrategy,  \* ScanOptions
  EnableLateStructurizeCFG,       \* AMDGPUTargetMachine toggles
  DisableStructurizer,
  EnableStructurizerWorkarounds,
  RequiresCodeGenSCCOrder,        \* Opt.RequiresCodeGenSCCOrder
  DisabledPasses,                 \* what disablePass<...>() recorded
  pipeline,                       \* passes appended through addPass, in order
  mark,                           \* length of pipeline when each phase returned
  Err,                            \* what addInstSelector returned
  calls,                          \* isPassEnabled calls made and their results
  pc                              \* last completed step of the build

vars == <<OptLevel, cl, LowerCtorDtor, EnableLowerModuleLDS,
          EnableLowerKernelArguments, AMDGPUAtomicOptimizerStrategy,
          EnableLateStructurizeCFG, DisableStructurizer,
          EnableStructurizerWorkarounds, RequiresCodeGenSCCOrder,
          DisabledPasses, pipeline, mark, Err, calls, pc>>

config == <<OptLevel, cl, LowerCtorDtor, EnableLowerModuleLDS,
            EnableLowerKernelArguments, AMDGPUAtomicOptimizerStrategy,
            EnableLateStructurizeCFG, DisableStructurizer,
            EnableStructurizerWorkarounds>>

\* ------------------------------------------------------------------ bounds

\* How many times one flag may occur on the command line.
MaxOccurrences == 1

\* How many isPassEnabled calls the resolver specification records.
MaxCalls == 1

\* ------------------------------------------------------------ configuration

\* CodeGenOptLevel, an ordinal enumeration: None < Less < Default < Aggressive.
CodeGenOptLevel == [None |-> 0, Less |-> 1, Default |-> 2, Aggressive |-> 3]

Levels == {CodeGenOptLevel.None, CodeGenOptLevel.Less,
           CodeGenOptLevel.Default, CodeGenOptLevel.Aggressive}

\* ScanOptions, the atomic optimizer's strategies.
ScanOptions == {"DPP", "Iterative", "None"}

\* The cl::opt<bool> flags this file hands to isPassEnabled.
Flags == {"EnableImageIntrinsicOptimizer", "EnableScalarIRPasses",
          "EnableLoopPrefetch", "EnableLoadStoreVectorizer"}

\* A cl::opt<bool>: its compiled-in default (cl::init), how often it occurred
\* on the command line, and its current value.  With no occurrence the value
\* is still the default.
OptStates ==
  {o \in [Default : BOOLEAN, NumOccurrences : 0..MaxOccurrences, Value : BOOLEAN] :
     o.NumOccurrences = 0 => o.Value = o.Default}

\* A flag nobody set, with default d.
Unset(d) == [Default |-> d, NumOccurrences |-> 0, Value |-> d]

\* The level isPassEnabled compares against when the caller names none.
DefaultLevelArg == CodeGenOptLevel.Default

\* The phases, in the order the pipeline is assembled.
Phases == <<"IRPasses", "CodeGenPrepare", "PreISel", "InstSelector",
            "MachinePasses", "AsmPrinter">>

\* -------------------------------------------------------------- sequences

Has(s, x) == \E i \in DOMAIN s : s[i] = x

Count(s, x) == Cardinality({i \in DOMAIN s : s[i] = x})

\* The first position of x in s; 0 when absent.
Pos(s, x) == IF Has(s, x)
             THEN CHOOSE i \in DOMAIN s : s[i] = x /\ \A j \in 1..(i - 1) : s[j] # x
             ELSE 0

Last(s) == s[Len(s)]

\* ------------------------------------------------------------- collaborators

\* addPass: the appender of the generic builder.  A pass that was disabled
\* is dropped; every other pass is appended at the end.
AddPass(list, name) ==
  IF name \in DisabledPasses THEN list ELSE Append(list, name)

\* Base::addIRPasses: the generic IR pipeline, opaque here, which also offers
\* the shadow-stack GC lowering.
BaseAddIRPasses(list) ==
  AddPass(AddPass(list, "GenericIRPasses"), "ShadowStackGCLoweringPass")

\* Base::addCodeGenPrepare: the generic code-gen-preparation stage.
BaseAddCodeGenPrepare(list) == AddPass(list, "CodeGenPreparePass")

\* The generic machine pipeline, opaque here, which offers the funclet layout
\* and the stack-map liveness.
BaseAddMachinePasses(list) ==
  AddPass(AddPass(AddPass(list, "GenericMachinePasses"),
                  "FuncletLayoutPass"), "StackMapLivenessPass")

\* ------------------------------------------------------------ isPassEnabled

\* Mutant: the threshold is tested before the explicit occurrence.
isPassEnabled_LevelFirst(Opt, Level) ==
  IF OptLevel < Level THEN FALSE ELSE Opt.Value

\* Mutant: any occurrence on the command line counts as "enabled".
isPassEnabled_OccurrenceEnables(Opt, Level) ==
  IF Opt.NumOccurrences # 0 THEN TRUE
  ELSE IF OptLevel < Level THEN FALSE
  ELSE Opt.Value

isPassEnabled(Opt, Level) ==
  IF Opt.NumOccurrences # 0 THEN Opt.Value
  ELSE IF OptLevel < Level THEN FALSE
  ELSE Opt.Value

\* ------------------------------------------------------------- constructor

\* Mutant: the funclet layout is left enabled.
DisabledAtConstruction_NoFunclet ==
  {"StackMapLivenessPass", "ShadowStackGCLoweringPass"}

\* The passes the constructor disables.
DisabledAtConstruction ==
  {"StackMapLivenessPass", "FuncletLayoutPass", "ShadowStackGCLoweringPass"}

\* ------------------------------------------------------ CSE-selection policy

\* Mutant: GVN is chosen from CodeGenOptLevel::Default upwards.
addEarlyCSEOrGVNPass_FromDefault(list) ==
  IF OptLevel >= CodeGenOptLevel.Default
  THEN AddPass(list, "GVNPass")
  ELSE AddPass(list, "EarlyCSEPass")

addEarlyCSEOrGVNPass(list) ==
  IF OptLevel = CodeGenOptLevel.Aggressive
  THEN AddPass(list, "GVNPass")
  ELSE AddPass(list, "EarlyCSEPass")

\* -------------------------------------- straight-line scalar optimizations

\* Mutant: the trailing EarlyCSE is left out when GVN already ran.
addStraightLineScalarOptimizationPasses_NoCSEAfterGVN(list) ==
  LET p0 == IF isPassEnabled(cl["EnableLoopPrefetch"], CodeGenOptLevel.Aggressive)
            THEN AddPass(list, "LoopDataPrefetchPass") ELSE list
      p1 == AddPass(p0, "SeparateConstOffsetFromGEPPass")
      p2 == AddPass(p1, "StraightLineStrengthReducePass")
      p3 == addEarlyCSEOrGVNPass(p2)
      p4 == AddPass(p3, "NaryReassociatePass")
  IN  IF OptLevel = CodeGenOptLevel.Aggressive
      THEN p4 ELSE AddPass(p4, "EarlyCSEPass")

addStraightLineScalarOptimizationPasses(list) ==
  LET p0 == IF isPassEnabled(cl["EnableLoopPrefetch"], CodeGenOptLevel.Aggressive)
            THEN AddPass(list, "LoopDataPrefetchPass") ELSE list
      p1 == AddPass(p0, "SeparateConstOffsetFromGEPPass")
      p2 == AddPass(p1, "StraightLineStrengthReducePass")
      p3 == addEarlyCSEOrGVNPass(p2)
      p4 == AddPass(p3, "NaryReassociatePass")
  IN  AddPass(p4, "EarlyCSEPass")

\* ----------------------------------------------------------------- IR phase

\* Mutant: the variadics are expanded after the inliners.
IRLowerings_VariadicsLate(list) ==
  LET p1 == AddPass(list, "AMDGPUPrintfRuntimeBindingPass")
      p2 == IF LowerCtorDtor THEN AddPass(p1, "AMDGPUCtorDtorLoweringPass") ELSE p1
      p3 == IF isPassEnabled(cl["EnableImageIntrinsicOptimizer"], DefaultLevelArg)
            THEN AddPass(p2, "AMDGPUImageIntrinsicOptimizerPass") ELSE p2
      p4 == AddPass(p3, "AMDGPUAlwaysInlinePass")
      p5 == AddPass(p4, "AlwaysInlinerPass")
      p6 == AddPass(p5, "ExpandVariadicsPass")
  IN  IF EnableLowerModuleLDS THEN AddPass(p6, "AMDGPULowerModuleLDSPass") ELSE p6

\* Lines 54-72: the lowerings and the inliners.
IRLowerings(list) ==
  LET p1 == AddPass(list, "AMDGPUPrintfRuntimeBindingPass")
      p2 == IF LowerCtorDtor THEN AddPass(p1, "AMDGPUCtorDtorLoweringPass") ELSE p1
      p3 == IF isPassEnabled(cl["EnableImageIntrinsicOptimizer"], DefaultLevelArg)
            THEN AddPass(p2, "AMDGPUImageIntrinsicOptimizerPass") ELSE p2
      p4 == AddPass(p3, "ExpandVariadicsPass")
      p5 == AddPass(p4, "AMDGPUAlwaysInlinePass")
      p6 == AddPass(p5, "AlwaysInlinerPass")
  IN  IF EnableLowerModuleLDS THEN AddPass(p6, "AMDGPULowerModuleLDSPass") ELSE p6

\* Mutant: the atomic expansion runs before the atomic optimizer.
IRAtomics_ExpandFirst(list) ==
  LET p1 == IF OptLevel > CodeGenOptLevel.None
            THEN AddPass(list, "InferAddressSpacesPass") ELSE list
      p2 == AddPass(p1, "AtomicExpandPass")
  IN  IF OptLevel >= CodeGenOptLevel.Less
         /\ AMDGPUAtomicOptimizerStrategy # "None"
      THEN AddPass(p2, "AMDGPUAtomicOptimizerPass") ELSE p2

\* Mutant: the atomic optimizer is gated by its strategy alone.
IRAtomics_NoLevelTest(list) ==
  LET p1 == IF OptLevel > CodeGenOptLevel.None
            THEN AddPass(list, "InferAddressSpacesPass") ELSE list
      p2 == IF AMDGPUAtomicOptimizerStrategy # "None"
            THEN AddPass(p1, "AMDGPUAtomicOptimizerPass") ELSE p1
  IN  AddPass(p2, "AtomicExpandPass")

\* Lines 74-82: address-space inference and the atomics.
IRAtomics(list) ==
  LET p1 == IF OptLevel > CodeGenOptLevel.None
            THEN AddPass(list, "InferAddressSpacesPass") ELSE list
      p2 == IF OptLevel >= CodeGenOptLevel.Less
               /\ AMDGPUAtomicOptimizerStrategy # "None"
            THEN AddPass(p1, "AMDGPUAtomicOptimizerPass") ELSE p1
  IN  AddPass(p2, "AtomicExpandPass")

\* Lines 84-95: what runs only above CodeGenOptLevel::None.
IROptimizations(list) ==
  IF OptLevel > CodeGenOptLevel.None
  THEN LET p1 == AddPass(list, "AMDGPUPromoteAllocaPass")
           p2 == IF isPassEnabled(cl["EnableScalarIRPasses"], DefaultLevelArg)
                 THEN addStraightLineScalarOptimizationPasses(p1) ELSE p1
       IN  AddPass(p2, "AMDGPUCodeGenPreparePass")
  ELSE list

\* Mutant: the closing CSE is appended only above CodeGenOptLevel::None.
IRClosing_LevelGated(list) ==
  LET p1 == BaseAddIRPasses(list)
  IN  IF OptLevel > CodeGenOptLevel.None
         /\ isPassEnabled(cl["EnableScalarIRPasses"], DefaultLevelArg)
      THEN addEarlyCSEOrGVNPass(p1) ELSE p1

\* Lines 97-112: the generic IR passes and the closing CSE.
IRClosing(list) ==
  LET p1 == BaseAddIRPasses(list)
  IN  IF isPassEnabled(cl["EnableScalarIRPasses"], DefaultLevelArg)
      THEN addEarlyCSEOrGVNPass(p1) ELSE p1

addIRPasses(list) == IRClosing(IROptimizations(IRAtomics(IRLowerings(list))))

\* ------------------------------------------------ code-gen-preparation phase

\* Mutant: the switch lowering is appended before the vectorizer.
addCodeGenPrepare_SwitchEarly(list) ==
  LET p1 == IF EnableLowerKernelArguments
            THEN AddPass(list, "AMDGPULowerKernelArgumentsPass") ELSE list
      p2 == AddPass(p1, "AMDGPULowerBufferFatPointersPass")
      p3 == BaseAddCodeGenPrepare(p2)
      p4 == AddPass(p3, "LowerSwitchPass")
  IN  IF isPassEnabled(cl["EnableLoadStoreVectorizer"], DefaultLevelArg)
      THEN AddPass(p4, "LoadStoreVectorizerPass") ELSE p4

addCodeGenPrepare(list) ==
  LET p1 == IF EnableLowerKernelArguments
            THEN AddPass(list, "AMDGPULowerKernelArgumentsPass") ELSE list
      p2 == AddPass(p1, "AMDGPULowerBufferFatPointersPass")
      p3 == BaseAddCodeGenPrepare(p2)
      p4 == IF isPassEnabled(cl["EnableLoadStoreVectorizer"], DefaultLevelArg)
            THEN AddPass(p3, "LoadStoreVectorizerPass") ELSE p3
  IN  AddPass(p4, "LowerSwitchPass")

\* ------------------------------------------- pre-instruction-selection phase

\* Mutant: DisableStructurizer is not consulted.
StructurizeEarly_IgnoreDisable == ~EnableLateStructurizeCFG

\* Lines 171 and 182: structurize here, in this phase.
StructurizeEarly == ~EnableLateStructurizeCFG /\ ~DisableStructurizer

\* Lines 158-169.
PreISelNormalize(list) ==
  LET p1 == IF OptLevel > CodeGenOptLevel.None
            THEN AddPass(list, "FlattenCFGPass") ELSE list
      p2 == IF OptLevel > CodeGenOptLevel.None
            THEN AddPass(p1, "SinkingPass") ELSE p1
      p3 == AddPass(p2, "AMDGPULateCodeGenPreparePass")
  IN  AddPass(p3, "AMDGPUUnifyDivergentExitNodesPass")

\* Mutant: the control-flow annotation and the phi rewrite directly follow
\* StructurizeCFG, before the uniform-value annotation.
PreISelStructurize_AnnotateEarly(list) ==
  LET p1 == IF StructurizeEarly /\ EnableStructurizerWorkarounds
            THEN AddPass(AddPass(list, "FixIrreduciblePass"), "UnifyLoopExitsPass")
            ELSE list
      p2 == IF StructurizeEarly
            THEN AddPass(AddPass(AddPass(p1, "StructurizeCFGPass"),
                                 "SIAnnotateControlFlowPass"),
                         "AMDGPURewriteUndefForPHIPass")
            ELSE p1
  IN  AddPass(p2, "AMDGPUAnnotateUniformValuesPass")

\* Lines 171-189.
PreISelStructurize(list) ==
  LET p1 == IF StructurizeEarly /\ EnableStructurizerWorkarounds
            THEN AddPass(AddPass(list, "FixIrreduciblePass"), "UnifyLoopExitsPass")
            ELSE list
      p2 == IF StructurizeEarly THEN AddPass(p1, "StructurizeCFGPass") ELSE p1
      p3 == AddPass(p2, "AMDGPUAnnotateUniformValuesPass")
  IN  IF StructurizeEarly
      THEN AddPass(AddPass(p3, "SIAnnotateControlFlowPass"),
                   "AMDGPURewriteUndefForPHIPass")
      ELSE p3

\* Mutant: the uniformity analysis is required only with the perf hints.
PreISelAnalyses_UniformityGated(list) ==
  LET p1 == AddPass(list, "LCSSAPass")
  IN  IF OptLevel > CodeGenOptLevel.Less
      THEN AddPass(AddPass(p1, "AMDGPUPerfHintAnalysisPass"),
                   "RequireAnalysisPass<UniformityInfoAnalysis>")
      ELSE p1

\* Lines 191-198.
PreISelAnalyses(list) ==
  LET p1 == AddPass(list, "LCSSAPass")
      p2 == IF OptLevel > CodeGenOptLevel.Less
            THEN AddPass(p1, "AMDGPUPerfHintAnalysisPass") ELSE p1
  IN  AddPass(p2, "RequireAnalysisPass<UniformityInfoAnalysis>")

addPreISel(list) == PreISelAnalyses(PreISelStructurize(PreISelNormalize(list)))

\* ------------------------------------------------ instruction-selection phase

\* Mutant: the two copy passes are swapped.
addInstSelector_Swapped(list) ==
  AddPass(AddPass(AddPass(list, "AMDGPUISelDAGToDAGPass"),
                  "SILowerI1CopiesPass"), "SIFixSGPRCopiesPass")

addInstSelector(list) ==
  AddPass(AddPass(AddPass(list, "AMDGPUISelDAGToDAGPass"),
                  "SIFixSGPRCopiesPass"), "SILowerI1CopiesPass")

\* --------------------------------------------------- assembly-emission phase

\* Mutant: the placeholder appends a printer stage.
addAsmPrinter_Appends(list) == AddPass(list, "AsmPrinterPass")

addAsmPrinter(list) == list

\* ------------------------------------------------------------------- Init

\* The configurations a session starts from.  One phase's inputs range over
\* all their values while the other phases' inputs stay at a baseline.
Baseline == [f \in Flags |-> Unset(TRUE)]

IRInputs ==
  /\ cl \in {[Baseline EXCEPT !["EnableImageIntrinsicOptimizer"] = a,
                              !["EnableScalarIRPasses"] = b,
                              !["EnableLoopPrefetch"] = c] :
               a \in OptStates, b \in OptStates, c \in OptStates}
  /\ LowerCtorDtor \in BOOLEAN
  /\ EnableLowerModuleLDS \in BOOLEAN
  /\ AMDGPUAtomicOptimizerStrategy \in ScanOptions
  /\ EnableLowerKernelArguments = TRUE
  /\ EnableLateStructurizeCFG = FALSE
  /\ DisableStructurizer = FALSE
  /\ EnableStructurizerWorkarounds = FALSE

LaterInputs ==
  /\ cl \in {[Baseline EXCEPT !["EnableLoadStoreVectorizer"] = a] : a \in OptStates}
  /\ LowerCtorDtor = TRUE
  /\ EnableLowerModuleLDS = TRUE
  /\ AMDGPUAtomicOptimizerStrategy = "DPP"
  /\ EnableLowerKernelArguments \in BOOLEAN
  /\ EnableLateStructurizeCFG \in BOOLEAN
  /\ DisableStructurizer \in BOOLEAN
  /\ EnableStructurizerWorkarounds \in BOOLEAN

NotBuilt ==
  /\ RequiresCodeGenSCCOrder = FALSE
  /\ DisabledPasses = {}
  /\ pipeline = <<>>
  /\ mark = [i \in DOMAIN Phases |-> 0]
  /\ Err = "none"
  /\ calls = <<>>
  /\ pc = 0

Init ==
  /\ OptLevel \in Levels
  /\ IRInputs \/ LaterInputs
  /\ NotBuilt

\* ---------------------------------------------------------------- actions

\* pc counts the completed steps: 0 before the constructor, 1 after it, and
\* 1 + i after phase i of Phases.
Done(i) == pc >= 1 + i

Finished == pc = 1 + Len(Phases)

\* The stages phase i appended.
PhaseStages(i) ==
  SubSeq(pipeline, (IF i = 1 THEN 0 ELSE mark[i - 1]) + 1, mark[i])

RunPhase(i, list) ==
  /\ pc = i
  /\ pipeline' = list
  /\ mark' = [mark EXCEPT ![i] = Len(list)]
  /\ pc' = i + 1

Construct ==
  /\ pc = 0
  /\ RequiresCodeGenSCCOrder' = TRUE
  /\ DisabledPasses' = DisabledPasses \cup DisabledAtConstruction
  /\ pc' = 1
  /\ UNCHANGED <<config, pipeline, mark, Err, calls>>

AddIRPasses ==
  /\ RunPhase(1, addIRPasses(pipeline))
  /\ UNCHANGED <<config, RequiresCodeGenSCCOrder, DisabledPasses, Err, calls>>

AddCodeGenPrepare ==
  /\ RunPhase(2, addCodeGenPrepare(pipeline))
  /\ UNCHANGED <<config, RequiresCodeGenSCCOrder, DisabledPasses, Err, calls>>

AddPreISel ==
  /\ RunPhase(3, addPreISel(pipeline))
  /\ UNCHANGED <<config, RequiresCodeGenSCCOrder, DisabledPasses, Err, calls>>

\* Mutant: an error is reported with the phase's stages left appended.
AddInstSelector_ErrorKeepsStages ==
  /\ RunPhase(4, addInstSelector(pipeline))
  /\ Err' = "error"
  /\ UNCHANGED <<config, RequiresCodeGenSCCOrder, DisabledPasses, calls>>

AddInstSelector ==
  /\ RunPhase(4, addInstSelector(pipeline))
  /\ Err' = "success"
  /\ UNCHANGED <<config, RequiresCodeGenSCCOrder, DisabledPasses, calls>>

\* Runs only when addInstSelector succeeded: an error ends the construction.
AddMachinePasses ==
  /\ Err = "success"
  /\ RunPhase(5, BaseAddMachinePasses(pipeline))
  /\ UNCHANGED <<config, RequiresCodeGenSCCOrder, DisabledPasses, Err, calls>>

AddAsmPrinter ==
  /\ RunPhase(6, addAsmPrinter(pipeline))
  /\ UNCHANGED <<config, RequiresCodeGenSCCOrder, DisabledPasses, Err, calls>>

Next ==
  \/ Construct
  \/ AddIRPasses
  \/ AddCodeGenPrepare
  \/ AddPreISel
  \/ AddInstSelector
  \/ AddMachinePasses
  \/ AddAsmPrinter

Spec == Init /\ [][Next]_vars

TypeOK ==
  /\ OptLevel \in Levels
  /\ \A f \in Flags : cl[f] \in OptStates
  /\ pc \in 0..(1 + Len(Phases))
  /\ Err \in {"none", "success"}
  /\ Len(calls) <= MaxCalls
  /\ \A i \in DOMAIN Phases : mark[i] <= Len(pipeline)

\* ------------------------------------------------- the resolver on its own

\* One flag ranges over every cl::opt state; the builder is constructed and
\* isPassEnabled is then asked about any flag at any threshold.
InitResolve ==
  /\ OptLevel \in Levels
  /\ cl \in {[Baseline EXCEPT ![f] = o] : f \in Flags, o \in OptStates}
  /\ LowerCtorDtor = TRUE
  /\ EnableLowerModuleLDS = TRUE
  /\ AMDGPUAtomicOptimizerStrategy = "DPP"
  /\ EnableLowerKernelArguments = TRUE
  /\ EnableLateStructurizeCFG = FALSE
  /\ DisableStructurizer = FALSE
  /\ EnableStructurizerWorkarounds = FALSE
  /\ NotBuilt

IsPassEnabledCall(f, Level) ==
  /\ pc = 1
  /\ Len(calls) < MaxCalls
  /\ calls' = Append(calls, [Flag |-> f, Level |-> Level,
                             Enabled |-> isPassEnabled(cl[f], Level)])
  /\ UNCHANGED <<config, RequiresCodeGenSCCOrder, DisabledPasses, pipeline,
                 mark, Err, pc>>

NextResolve ==
  \/ Construct
  \/ \E f \in Flags, Level \in Levels : IsPassEnabledCall(f, Level)

SpecResolve == InitResolve /\ [][NextResolve]_vars

\* ------------------------------------------------------------------ claims

IRStages == PhaseStages(1)

CGPStages == PhaseStages(2)

PreISelStages == PhaseStages(3)

ISelStages == PhaseStages(4)

\* C1: every recorded isPassEnabled call returned the flag's explicit value
\* when the flag occurred on the command line, whatever the optimization
\* level; otherwise false when the level is strictly below the threshold;
\* otherwise the flag's compiled-in default.
C1_ResolveContract ==
  \A i \in DOMAIN calls :
    LET c == calls[i]
        o == cl[c.Flag]
    IN  c.Enabled = (IF o.NumOccurrences > 0 THEN o.Value
                     ELSE IF OptLevel < c.Level THEN FALSE
                     ELSE o.Default)

\* C1's case: override = true, level None, threshold Aggressive gives true.
C1_Witness ==
  \E i \in DOMAIN calls :
    /\ cl[calls[i].Flag].NumOccurrences > 0
    /\ cl[calls[i].Flag].Value = TRUE
    /\ cl[calls[i].Flag].Default = FALSE
    /\ OptLevel = CodeGenOptLevel.None
    /\ calls[i].Level = CodeGenOptLevel.Aggressive
    /\ calls[i].Enabled = TRUE

EarlyOnlyStages ==
  {"FixIrreduciblePass", "UnifyLoopExitsPass", "StructurizeCFGPass",
   "SIAnnotateControlFlowPass", "AMDGPURewriteUndefForPHIPass"}

\* C2: once addPreISel has run, the five stages of early structurization
\* appear only when neither EnableLateStructurizeCFG nor DisableStructurizer
\* is set; then StructurizeCFG, SIAnnotateControlFlow and RewriteUndefForPHI
\* all appear, and FixIrreducible and UnifyLoopExits appear exactly when the
\* workaround flag is set.  Otherwise none of the five appears, while
\* UnifyDivergentExitNodes and AnnotateUniformValues are still there.
C2_EarlyStructurizeOnly ==
  Done(3) =>
    LET S == PreISelStages
        early == ~EnableLateStructurizeCFG /\ ~DisableStructurizer
    IN  /\ \A x \in EarlyOnlyStages : Has(S, x) => early
        /\ early =>
             /\ Has(S, "StructurizeCFGPass")
             /\ Has(S, "SIAnnotateControlFlowPass")
             /\ Has(S, "AMDGPURewriteUndefForPHIPass")
             /\ Has(S, "FixIrreduciblePass") <=> EnableStructurizerWorkarounds
             /\ Has(S, "UnifyLoopExitsPass") <=> EnableStructurizerWorkarounds
        /\ Has(S, "AMDGPUUnifyDivergentExitNodesPass")
        /\ Has(S, "AMDGPUAnnotateUniformValuesPass")

\* C2's case: structurizer disabled, workaround flag set, phase built.
C2_Witness ==
  /\ Done(3)
  /\ DisableStructurizer /\ ~EnableLateStructurizeCFG
  /\ EnableStructurizerWorkarounds
  /\ \A x \in EarlyOnlyStages : ~Has(PreISelStages, x)
  /\ Has(PreISelStages, "AMDGPUAnnotateUniformValuesPass")

\* C3: once addCodeGenPrepare has run, the fat-pointer lowering is in the
\* phase's stages, the vectorizer is there exactly when its flag resolves to
\* enabled and then comes after the fat-pointer lowering, and the switch
\* lowering is the phase's last stage.
C3_CodeGenPrepareOrder ==
  Done(2) =>
    LET S == CGPStages
    IN  /\ Count(S, "AMDGPULowerBufferFatPointersPass") = 1
        /\ Has(S, "LoadStoreVectorizerPass")
             <=> isPassEnabled(cl["EnableLoadStoreVectorizer"], DefaultLevelArg)
        /\ Has(S, "LoadStoreVectorizerPass") =>
             Pos(S, "AMDGPULowerBufferFatPointersPass")
               < Pos(S, "LoadStoreVectorizerPass")
        /\ Count(S, "LowerSwitchPass") = 1
        /\ Last(S) = "LowerSwitchPass"

\* C3's case: the vectorizer is enabled and the phase is built.
C3_Witness ==
  /\ Done(2)
  /\ Has(CGPStages, "LoadStoreVectorizerPass")
  /\ Has(CGPStages, "AMDGPULowerBufferFatPointersPass")
  /\ Last(CGPStages) = "LowerSwitchPass"

\* C4 (as claimed): once addCodeGenPrepare has run, the fat-pointer lowering
\* comes after the generic code-gen-preparation stage and before the
\* vectorizer.
C4_FatPointersAfterGenericPrepare ==
  Done(2) =>
    LET S == CGPStages
    IN  /\ Has(S, "CodeGenPreparePass")
        /\ Pos(S, "CodeGenPreparePass") < Pos(S, "AMDGPULowerBufferFatPointersPass")
        /\ Has(S, "LoadStoreVectorizerPass") =>
             Pos(S, "AMDGPULowerBufferFatPointersPass")
               < Pos(S, "LoadStoreVectorizerPass")

\* C5: StackMapLiveness, FuncletLayout and ShadowStackGCLowering never appear
\* in the stage list, and from the constructor on the set of disabled passes
\* is exactly these three: no phase-build operation changes it.
C5_DisabledNeverAppear ==
  LET three == {"StackMapLivenessPass", "FuncletLayoutPass",
                "ShadowStackGCLoweringPass"}
  IN  /\ \A x \in three : ~Has(pipeline, x)
      /\ pc >= 1 => DisabledPasses = three

\* C5's case: the whole pipeline is built, the generic IR and machine
\* pipelines that offer the three passes included.
C5_Witness ==
  /\ Finished
  /\ Has(IRStages, "GenericIRPasses")
  /\ Has(pipeline, "GenericMachinePasses")
  /\ OptLevel = CodeGenOptLevel.Aggressive
  /\ cl["EnableScalarIRPasses"].NumOccurrences > 0

UniformityStage == "RequireAnalysisPass<UniformityInfoAnalysis>"

\* C6: once addPreISel has run, its stages hold the uniformity-analysis
\* requirement exactly once, as their last stage, and every stage of
\* instruction selection comes after it in the pipeline.
C6_UniformityLastInPreISel ==
  Done(3) =>
    /\ Count(PreISelStages, UniformityStage) = 1
    /\ Last(PreISelStages) = UniformityStage
    /\ Count(pipeline, UniformityStage) = 1
    /\ \A i \in DOMAIN pipeline :
         pipeline[i] \in {"AMDGPUISelDAGToDAGPass", "SIFixSGPRCopiesPass",
                          "SILowerI1CopiesPass"}
           => Pos(pipeline, UniformityStage) < i

\* C6's case: instruction selection was appended, at a level without the
\* performance hints.
C6_Witness ==
  /\ Done(4)
  /\ OptLevel = CodeGenOptLevel.None
  /\ Has(pipeline, "AMDGPUISelDAGToDAGPass")
  /\ Last(PreISelStages) = UniformityStage

\* C7: at CodeGenOptLevel::None the IR phase holds the printf runtime
\* binding, the variadics expansion, both always-inliners, the atomic
\* expansion and the generic IR passes, and holds neither address-space
\* inference, the atomic optimizer, alloca promotion, any stage of the
\* straight-line scalar sub-sequence, nor AMDGPUCodeGenPrepare.
C7_LevelNoneIRPhase ==
  (Done(1) /\ OptLevel = CodeGenOptLevel.None) =>
    /\ \A x \in {"AMDGPUPrintfRuntimeBindingPass", "ExpandVariadicsPass",
                 "AMDGPUAlwaysInlinePass", "AlwaysInlinerPass",
                 "AtomicExpandPass", "GenericIRPasses"} : Has(IRStages, x)
    /\ \A x \in {"InferAddressSpacesPass", "AMDGPUAtomicOptimizerPass",
                 "AMDGPUPromoteAllocaPass", "AMDGPUCodeGenPreparePass",
                 "LoopDataPrefetchPass", "SeparateConstOffsetFromGEPPass",
                 "StraightLineStrengthReducePass", "NaryReassociatePass"} :
         ~Has(IRStages, x)

\* C7's case (Scenario A): level None, no flag set on the command line, an
\* atomic-optimizer strategy configured.
C7_Witness ==
  /\ Done(1)
  /\ OptLevel = CodeGenOptLevel.None
  /\ \A f \in Flags : cl[f].NumOccurrences = 0
  /\ AMDGPUAtomicOptimizerStrategy = "DPP"
  /\ Has(IRStages, "AlwaysInlinerPass")

\* C8: with EnableLoopPrefetch explicitly set to false the IR phase holds no
\* LoopDataPrefetch, at any optimization level.
C8_PrefetchOverrideFalse ==
  (Done(1) /\ cl["EnableLoopPrefetch"].NumOccurrences > 0
           /\ cl["EnableLoopPrefetch"].Value = FALSE) =>
    ~Has(IRStages, "LoopDataPrefetchPass")

\* C8's case (Scenario B): level Aggressive, the flag's default is true, the
\* command line set it to false, and the sub-sequence was emitted.
C8_Witness ==
  /\ Done(1)
  /\ OptLevel = CodeGenOptLevel.Aggressive
  /\ cl["EnableLoopPrefetch"].NumOccurrences > 0
  /\ cl["EnableLoopPrefetch"].Value = FALSE
  /\ cl["EnableLoopPrefetch"].Default = TRUE
  /\ Has(IRStages, "SeparateConstOffsetFromGEPPass")
  /\ ~Has(IRStages, "LoopDataPrefetchPass")

\* The variant the CSE-selection policy is to choose at the current level.
CSEVariant ==
  IF OptLevel = CodeGenOptLevel.Aggressive THEN "GVNPass" ELSE "EarlyCSEPass"

\* How many of the policy's two call sites the IR phase went through.
CSESites ==
  (IF Has(IRStages, "StraightLineStrengthReducePass") THEN 1 ELSE 0)
  + (IF isPassEnabled(cl["EnableScalarIRPasses"], DefaultLevelArg) THEN 1 ELSE 0)

\* C9: in the IR phase each call of the CSE-selection policy appended exactly
\* one stage, GVN at level Aggressive and EarlyCSE otherwise: the stage
\* between StraightLineStrengthReduce and NaryReassociate and the stage after
\* the generic IR passes are both that variant, and GVN and EarlyCSE occur
\* as often as the call sites (and the sub-sequence's trailing EarlyCSE) say.
C9_CSEPolicy ==
  Done(1) =>
    LET S == IRStages
        i == Pos(S, "StraightLineStrengthReducePass")
        sub == IF i > 0 THEN 1 ELSE 0
        closing == isPassEnabled(cl["EnableScalarIRPasses"], DefaultLevelArg)
    IN  /\ i > 0 => /\ S[i + 1] = CSEVariant
                    /\ S[i + 2] = "NaryReassociatePass"
        /\ closing => /\ Last(S) = CSEVariant
                      /\ S[Len(S) - 1] = "GenericIRPasses"
        /\ ~closing => Last(S) = "GenericIRPasses"
        /\ Count(S, "GVNPass")
             = (IF OptLevel = CodeGenOptLevel.Aggressive THEN CSESites ELSE 0)
        /\ Count(S, "EarlyCSEPass")
             = sub + (IF OptLevel = CodeGenOptLevel.Aggressive THEN 0 ELSE CSESites)

\* C9's case: both call sites ran at level Aggressive.
C9_Witness ==
  /\ Done(1)
  /\ OptLevel = CodeGenOptLevel.Aggressive
  /\ CSESites = 2
  /\ Count(IRStages, "GVNPass") = 2

\* C10: once addInstSelector has run, its stages are exactly the DAG
\* instruction selection, SIFixSGPRCopies and SILowerI1Copies, in this
\* order, and it returned success.
C10_InstSelector ==
  Done(4) =>
    /\ ISelStages = <<"AMDGPUISelDAGToDAGPass", "SIFixSGPRCopiesPass",
                      "SILowerI1CopiesPass">>
    /\ Err = "success"

\* C10's case: the phase has run and appended three stages.
C10_Witness ==
  /\ Done(4)
  /\ Len(ISelStages) = 3
  /\ Err = "success"

\* C11: only addInstSelector reports a result, so before it has run nothing
\* is reported; what it reports is success, or an error that leaves none of
\* its stages appended and ends the construction; and a construction that
\* went through every phase reported success and holds the stages of
\* instruction selection.
C11_CompleteOrAtomic ==
  /\ ~Done(4) => Err = "none"
  /\ Done(4) => \/ Err = "success"
                \/ Err = "error" /\ ISelStages = <<>> /\ ~Done(5)
  /\ Finished => Err = "success" /\ Len(ISelStages) = 3

\* C11's case: the construction went through every phase.
C11_Witness ==
  /\ Finished
  /\ Err = "success"
  /\ Has(pipeline, "SILowerI1CopiesPass")
  /\ Has(pipeline, "GenericMachinePasses")
  /\ Has(pipeline, "AMDGPUPrintfRuntimeBindingPass")

\* C13: the step that runs addAsmPrinter leaves the stage list as it was,
\* and the construction is finished after it.
C13_AsmPrinterAppendsNothing ==
  [][pc = Len(Phases) => (pipeline' = pipeline /\ Finished')]_vars

\* C13's case: addAsmPrinter has run on a pipeline that holds stages.
C13_Witness ==
  /\ Finished
  /\ mark[6] = mark[5]
  /\ Len(pipeline) = mark[6]
  /\ Len(pipeline) > 0

\* The order addPreISel is to keep.
PreISelOrder ==
  <<"FlattenCFGPass", "SinkingPass", "AMDGPULateCodeGenPreparePass",
    "AMDGPUUnifyDivergentExitNodesPass", "FixIrreduciblePass",
    "UnifyLoopExitsPass", "StructurizeCFGPass",
    "AMDGPUAnnotateUniformValuesPass", "SIAnnotateControlFlowPass",
    "AMDGPURewriteUndefForPHIPass", "LCSSAPass", "AMDGPUPerfHintAnalysisPass",
    "RequireAnalysisPass<UniformityInfoAnalysis>">>

\* Whether a stage of PreISelOrder is to be present in this configuration.
PreISelGate(x) ==
  LET early == ~EnableLateStructurizeCFG /\ ~DisableStructurizer
  IN  CASE x \in {"FlattenCFGPass", "SinkingPass"} ->
             OptLevel > CodeGenOptLevel.None
        [] x \in {"FixIrreduciblePass", "UnifyLoopExitsPass"} ->
             early /\ EnableStructurizerWorkarounds
        [] x \in {"StructurizeCFGPass", "SIAnnotateControlFlowPass",
                  "AMDGPURewriteUndefForPHIPass"} -> early
        [] x = "AMDGPUPerfHintAnalysisPass" -> OptLevel > CodeGenOptLevel.Less
        [] OTHER -> TRUE

\* C14: once addPreISel has run, its stages are exactly the stages of the
\* fixed order whose gate holds, in that order; so UnifyDivergentExitNodes
\* precedes StructurizeCFG, and the control-flow annotation and the phi
\* rewrite follow the uniform-value annotation.
C14_PreISelExactOrder ==
  Done(3) => PreISelStages = SelectSeq(PreISelOrder, PreISelGate)

\* C14's case: every gate is open, all thirteen stages are there.
C14_Witness ==
  /\ Done(3)
  /\ OptLevel = CodeGenOptLevel.Aggressive
  /\ ~EnableLateStructurizeCFG /\ ~DisableStructurizer
  /\ EnableStructurizerWorkarounds
  /\ Len(PreISelStages) = 13
  /\ Pos(PreISelStages, "AMDGPUAnnotateUniformValuesPass")
       < Pos(PreISelStages, "SIAnnotateControlFlowPass")

\* C15: once addIRPasses has run, the printf runtime binding is its first
\* stage, AMDGPUAlwaysInline comes directly before AlwaysInliner, the
\* variadics expansion comes after the image-intrinsic optimizer (when
\* present) and before the inliners, and the module-LDS lowering, when
\* present, precedes the alloca promotion, when present.
C15_IRPhaseOrder ==
  Done(1) =>
    LET S == IRStages
    IN  /\ S[1] = "AMDGPUPrintfRuntimeBindingPass"
        /\ Count(S, "AMDGPUAlwaysInlinePass") = 1
        /\ Count(S, "AlwaysInlinerPass") = 1
        /\ Count(S, "ExpandVariadicsPass") = 1
        /\ Pos(S, "AMDGPUAlwaysInlinePass") + 1 = Pos(S, "AlwaysInlinerPass")
        /\ Has(S, "AMDGPUImageIntrinsicOptimizerPass") =>
             Pos(S, "AMDGPUImageIntrinsicOptimizerPass")
               < Pos(S, "ExpandVariadicsPass")
        /\ Pos(S, "ExpandVariadicsPass") < Pos(S, "AMDGPUAlwaysInlinePass")
        /\ (Has(S, "AMDGPULowerModuleLDSPass") /\ Has(S, "AMDGPUPromoteAllocaPass"))
             => Pos(S, "AMDGPULowerModuleLDSPass")
                  < Pos(S, "AMDGPUPromoteAllocaPass")

\* C15's case: the optional stages the order speaks of are all present.
C15_Witness ==
  /\ Done(1)
  /\ Has(IRStages, "AMDGPUImageIntrinsicOptimizerPass")
  /\ Has(IRStages, "AMDGPULowerModuleLDSPass")
  /\ Has(IRStages, "AMDGPUPromoteAllocaPass")
  /\ Has(IRStages, "AMDGPUCtorDtorLoweringPass")

\* C16: once addIRPasses has run, the atomic optimizer is among its stages
\* exactly when the level is at least Less and the strategy is not None;
\* when present it is directly followed by the atomic expansion, which is
\* there exactly once in every configuration.
C16_AtomicOptimizer ==
  Done(1) =>
    LET S == IRStages
        i == Pos(S, "AMDGPUAtomicOptimizerPass")
    IN  /\ Has(S, "AMDGPUAtomicOptimizerPass")
             <=> (OptLevel >= CodeGenOptLevel.Less
                  /\ AMDGPUAtomicOptimizerStrategy # "None")
        /\ Count(S, "AMDGPUAtomicOptimizerPass") <= 1
        /\ i > 0 => S[i + 1] = "AtomicExpandPass"
        /\ Count(S, "AtomicExpandPass") = 1

\* C16's case: the optimizer is present at level Less.
C16_Witness ==
  /\ Done(1)
  /\ OptLevel = CodeGenOptLevel.Less
  /\ AMDGPUAtomicOptimizerStrategy = "Iterative"
  /\ Has(IRStages, "AMDGPUAtomicOptimizerPass")

\* Whether the IR phase went through the straight-line scalar sub-sequence.
SubSequenceEmitted == Has(IRStages, "SeparateConstOffsetFromGEPPass")

\* C17: whenever the straight-line scalar sub-sequence is emitted, it is
\* exactly LoopDataPrefetch (iff the prefetch flag resolves to enabled at
\* threshold Aggressive), SeparateConstOffsetFromGEP,
\* StraightLineStrengthReduce, the CSE policy's stage, NaryReassociate,
\* EarlyCSE, standing between the alloca promotion and AMDGPUCodeGenPrepare;
\* the trailing EarlyCSE is there at every level.
C17_SubSequenceExact ==
  (Done(1) /\ SubSequenceEmitted) =>
    LET S == IRStages
        a == Pos(S, "AMDGPUPromoteAllocaPass")
        b == Pos(S, "AMDGPUCodeGenPreparePass")
        prefetch == isPassEnabled(cl["EnableLoopPrefetch"],
                                  CodeGenOptLevel.Aggressive)
        tail == <<"SeparateConstOffsetFromGEPPass",
                  "StraightLineStrengthReducePass", CSEVariant,
                  "NaryReassociatePass", "EarlyCSEPass">>
    IN  /\ 0 < a /\ a < b
        /\ SubSeq(S, a + 1, b - 1)
             = (IF prefetch THEN <<"LoopDataPrefetchPass">> ELSE <<>>) \o tail

\* C17's case: level Aggressive, prefetch enabled: GVN before the
\* reassociation, EarlyCSE after it.
C17_Witness ==
  /\ Done(1)
  /\ SubSequenceEmitted
  /\ OptLevel = CodeGenOptLevel.Aggressive
  /\ Has(IRStages, "LoopDataPrefetchPass")
  /\ Pos(IRStages, "NaryReassociatePass") + 1 = Pos(IRStages, "EarlyCSEPass")

\* C18 (as claimed): LoopDataPrefetch appears only where the prefetch flag is
\* on and the level is at least Aggressive.
C18_PrefetchNeedsAggressive ==
  (Done(1) /\ Has(IRStages, "LoopDataPrefetchPass")) =>
    /\ cl["EnableLoopPrefetch"].Value = TRUE
    /\ OptLevel >= CodeGenOptLevel.Aggressive

\* C18 (amended): LoopDataPrefetch appears only where the prefetch flag is on
\* and either the level is at least Aggressive or the flag was set
\* explicitly on the command line.
C18_PrefetchNeedsAggressiveOrOverride ==
  (Done(1) /\ Has(IRStages, "LoopDataPrefetchPass")) =>
    /\ cl["EnableLoopPrefetch"].Value = TRUE
    /\ \/ OptLevel >= CodeGenOptLevel.Aggressive
       \/ cl["EnableLoopPrefetch"].NumOccurrences > 0

\* C18's case: the flag was set to true explicitly and the stage is there
\* below level Aggressive.
C18_Witness ==
  /\ Done(1)
  /\ OptLevel = CodeGenOptLevel.Less
  /\ cl["EnableLoopPrefetch"].NumOccurrences > 0
  /\ cl["EnableLoopPrefetch"].Value = TRUE
  /\ Has(IRStages, "LoopDataPrefetchPass")

\* C19: once addIRPasses has run, the sub-sequence is there exactly when the
\* level is above None and EnableScalarIRPasses resolves to enabled, and then
\* stands after the alloca promotion and before AMDGPUCodeGenPrepare; the
\* closing CSE stage is there exactly when the flag resolves to enabled, at
\* any level, and is then the last stage, right after the generic IR passes.
C19_ScalarPassesPlacement ==
  Done(1) =>
    LET S == IRStages
        enabled == isPassEnabled(cl["EnableScalarIRPasses"], DefaultLevelArg)
    IN  /\ SubSequenceEmitted <=> (OptLevel > CodeGenOptLevel.None /\ enabled)
        /\ SubSequenceEmitted =>
             /\ Has(S, "AMDGPUPromoteAllocaPass")
             /\ Pos(S, "AMDGPUPromoteAllocaPass")
                  < Pos(S, "SeparateConstOffsetFromGEPPass")
             /\ Pos(S, "NaryReassociatePass") + 1
                  < Pos(S, "AMDGPUCodeGenPreparePass")
        /\ enabled => /\ Last(S) \in {"GVNPass", "EarlyCSEPass"}
                      /\ S[Len(S) - 1] = "GenericIRPasses"
        /\ ~enabled => Last(S) = "GenericIRPasses"
        /\ Count(S, "GenericIRPasses") = 1

\* C19's case: level None, the flag explicitly set to true: the closing CSE
\* without the sub-sequence.
C19_Witness ==
  /\ Done(1)
  /\ OptLevel = CodeGenOptLevel.None
  /\ cl["EnableScalarIRPasses"].NumOccurrences > 0
  /\ cl["EnableScalarIRPasses"].Value = TRUE
  /\ ~SubSequenceEmitted
  /\ Last(IRStages) = "EarlyCSEPass"

\* C20 (as claimed): the IR phase never holds both GVN and EarlyCSE.
C20_NeverBothCSEVariants ==
  Done(1) => ~(Has(IRStages, "GVNPass") /\ Has(IRStages, "EarlyCSEPass"))

\* C20 (amended): the IR phase holds both GVN and EarlyCSE exactly when the
\* level is Aggressive and the sub-sequence is emitted, and then EarlyCSE is
\* only the sub-sequence's trailing stage, directly after NaryReassociate;
\* below Aggressive there is no GVN.
C20_BothOnlyByTrailingCSE ==
  Done(1) =>
    LET S == IRStages
    IN  /\ (Has(S, "GVNPass") /\ Has(S, "EarlyCSEPass"))
             <=> (OptLevel = CodeGenOptLevel.Aggressive /\ SubSequenceEmitted)
        /\ (Has(S, "GVNPass") /\ Has(S, "EarlyCSEPass")) =>
             /\ Count(S, "EarlyCSEPass") = 1
             /\ Pos(S, "EarlyCSEPass") = Pos(S, "NaryReassociatePass") + 1
        /\ OptLevel < CodeGenOptLevel.Aggressive => ~Has(S, "GVNPass")

\* C20's case: level Aggressive with the sub-sequence: both variants.
C20_Witness ==
  /\ Done(1)
  /\ OptLevel = CodeGenOptLevel.Aggressive
  /\ Has(IRStages, "GVNPass")
  /\ Has(IRStages, "EarlyCSEPass")
  /\ cl["EnableScalarIRPasses"].NumOccurrences = 0

====
